---- MODULE Spec2Model ----
(***************************************************************************)
(* Model of the Nokia 7220 IXR-H4-32D SWPLD3 CPLD driver                   *)
(* (ixr7220h4-32d/modules/h4_32d_swpld3.c): the register access layer      *)
(* (cpld_i2c_read / cpld_i2c_write under data->update_lock), the sysfs     *)
(* show/store handlers with their bit arithmetic, and probe / remove.      *)
(***************************************************************************)
EXTENDS Integers, Sequences, FiniteSets, TLC

(* ---- REGISTERS ADDRESS MAP and bit positions (the #define block) ---- *)
CODE_REV_REG == 1
LED_TEST_REG == 8
SCRATCH_REG == 15
RST_REG == 16
QSFP_RST_REG0 == 17
QSFP_RST_REG1 == 18
QSFP_INITMOD_REG0 == 33
QSFP_INITMOD_REG1 == 34
QSFP_MODSEL_REG0 == 49
QSFP_MODSEL_REG1 == 50
HITLESS_REG == 57
QSFP_MODPRS_REG0 == 81
QSFP_MODPRS_REG1 == 82
QSFP_INT_REG0 == 97
QSFP_INT_REG1 == 98
SFP_REG0 == 113
SFP_REG1 == 114
CODE_DAY_REG == 240
CODE_MONTH_REG == 241
CODE_YEAR_REG == 242
TEST_CODE_REV_REG == 243
CODE_REV_REG_VER_MSK == 63
CODE_REV_REG_TYPE == 7
LED_TEST_REG_AMB == 0
LED_TEST_REG_GRN == 1
LED_TEST_REG_BLINK == 3
LED_TEST_REG_SRC_SEL == 7
RST_REG_PLD_SOFT_RST == 0
HITLESS_REG_EN == 0
SFP_REG0_TX_FAULT == 4
SFP_REG0_RX_LOS == 5
SFP_REG0_PRS == 6
SFP_REG1_TX_EN == 7
QSFP17_INDEX == 7
QSFP18_INDEX == 6
QSFP19_INDEX == 5
QSFP20_INDEX == 4
QSFP21_INDEX == 3
QSFP22_INDEX == 2
QSFP23_INDEX == 1
QSFP24_INDEX == 0
QSFP25_INDEX == 7
QSFP26_INDEX == 6
QSFP27_INDEX == 5
QSFP28_INDEX == 4
QSFP29_INDEX == 3
QSFP30_INDEX == 2
QSFP31_INDEX == 1
QSFP32_INDEX == 0

(* errno values returned by the handlers and by probe *)
EIO == 5
ENOMEM == 12
EINVAL == 22
ERANGE == 34

RegAddrs ==
    { CODE_REV_REG, LED_TEST_REG, SCRATCH_REG, RST_REG, QSFP_RST_REG0,
      QSFP_RST_REG1, QSFP_INITMOD_REG0, QSFP_INITMOD_REG1, QSFP_MODSEL_REG0,
      QSFP_MODSEL_REG1, HITLESS_REG, QSFP_MODPRS_REG0, QSFP_MODPRS_REG1,
      QSFP_INT_REG0, QSFP_INT_REG1, SFP_REG0, SFP_REG1, CODE_DAY_REG,
      CODE_MONTH_REG, CODE_YEAR_REG, TEST_CODE_REV_REG }

Byte == 0 .. 255

(* ---- C integer arithmetic used by the handlers ---- *)
Pow2(n) == 2 ^ n

(* bit i of the two's-complement integer x (x may be a negative errno) *)
BitOf(x, i) == (x \div Pow2(i)) % 2

(* (u8) x : conversion of an int to unsigned char *)
ToU8(x) == x % 256

(* a & b and a | b on the low eight bits *)
And8(a, b) ==
    LET f[i \in 0 .. 8] ==
          IF i = 8 THEN 0 ELSE BitOf(a, i) * BitOf(b, i) * Pow2(i) + f[i + 1]
    IN  f[0]

Or8(a, b) ==
    LET f[i \in 0 .. 8] ==
          IF i = 8 THEN 0
          ELSE (IF BitOf(a, i) + BitOf(b, i) > 0 THEN Pow2(i) ELSE 0) + f[i + 1]
    IN  f[0]

(* ~x on the low eight bits *)
Not8(x) == 255 - ToU8(x)

(* usr_val << index, stored back into a u8 *)
Shl8(x, n) == ToU8(x * Pow2(n))

(* x >> n for a non-negative int *)
Shr(x, n) == x \div Pow2(n)

(* ---- sysfs attributes: the SENSOR_DEVICE_ATTR table ---- *)
AttrTable ==
    <<
       [name |-> "code_ver", show |-> "show_code_ver", store |-> "NULL", index |-> 0],
       [name |-> "code_type", show |-> "show_code_type", store |-> "NULL", index |-> 0],
       [name |-> "led_test_amb", show |-> "show_led_test", store |-> "set_led_test", index |-> LED_TEST_REG_AMB],
       [name |-> "led_test_grn", show |-> "show_led_test", store |-> "set_led_test", index |-> LED_TEST_REG_GRN],
       [name |-> "led_test_blink", show |-> "show_led_test", store |-> "set_led_test", index |-> LED_TEST_REG_BLINK],
       [name |-> "led_test_src_sel", show |-> "show_led_test", store |-> "set_led_test", index |-> LED_TEST_REG_SRC_SEL],
       [name |-> "scratch", show |-> "show_scratch", store |-> "set_scratch", index |-> 0],
       [name |-> "rst_pld_soft", show |-> "show_rst", store |-> "set_rst", index |-> RST_REG_PLD_SOFT_RST],
       [name |-> "qsfp17_rst", show |-> "show_qsfp_rst0", store |-> "set_qsfp_rst0", index |-> QSFP17_INDEX],
       [name |-> "qsfp18_rst", show |-> "show_qsfp_rst0", store |-> "set_qsfp_rst0", index |-> QSFP18_INDEX],
       [name |-> "qsfp19_rst", show |-> "show_qsfp_rst0", store |-> "set_qsfp_rst0", index |-> QSFP19_INDEX],
       [name |-> "qsfp20_rst", show |-> "show_qsfp_rst0", store |-> "set_qsfp_rst0", index |-> QSFP20_INDEX],
       [name |-> "qsfp21_rst", show |-> "show_qsfp_rst0", store |-> "set_qsfp_rst0", index |-> QSFP21_INDEX],
       [name |-> "qsfp22_rst", show |-> "show_qsfp_rst0", store |-> "set_qsfp_rst0", index |-> QSFP22_INDEX],
       [name |-> "qsfp23_rst", show |-> "show_qsfp_rst0", store |-> "set_qsfp_rst0", index |-> QSFP23_INDEX],
       [name |-> "qsfp24_rst", show |-> "show_qsfp_rst0", store |-> "set_qsfp_rst0", index |-> QSFP24_INDEX],
       [name |-> "qsfp25_rst", show |-> "show_qsfp_rst1", store |-> "set_qsfp_rst1", index |-> QSFP25_INDEX],
       [name |-> "qsfp26_rst", show |-> "show_qsfp_rst1", store |-> "set_qsfp_rst1", index |-> QSFP26_INDEX],
       [name |-> "qsfp27_rst", show |-> "show_qsfp_rst1", store |-> "set_qsfp_rst1", index |-> QSFP27_INDEX],
       [name |-> "qsfp28_rst", show |-> "show_qsfp_rst1", store |-> "set_qsfp_rst1", index |-> QSFP28_INDEX],
       [name |-> "qsfp29_rst", show |-> "show_qsfp_rst1", store |-> "set_qsfp_rst1", index |-> QSFP29_INDEX],
       [name |-> "qsfp30_rst", show |-> "show_qsfp_rst1", store |-> "set_qsfp_rst1", index |-> QSFP30_INDEX],
       [name |-> "qsfp31_rst", show |-> "show_qsfp_rst1", store |-> "set_qsfp_rst1", index |-> QSFP31_INDEX],
       [name |-> "qsfp32_rst", show |-> "show_qsfp_rst1", store |-> "set_qsfp_rst1", index |-> QSFP32_INDEX],
       [name |-> "qsfp17_lpmod", show |-> "show_qsfp_initmod0", store |-> "set_qsfp_initmod0", index |-> QSFP17_INDEX],
       [name |-> "qsfp18_lpmod", show |-> "show_qsfp_initmod0", store |-> "set_qsfp_initmod0", index |-> QSFP18_INDEX],
       [name |-> "qsfp19_lpmod", show |-> "show_qsfp_initmod0", store |-> "set_qsfp_initmod0", index |-> QSFP19_INDEX],
       [name |-> "qsfp20_lpmod", show |-> "show_qsfp_initmod0", store |-> "set_qsfp_initmod0", index |-> QSFP20_INDEX],
       [name |-> "qsfp21_lpmod", show |-> "show_qsfp_initmod0", store |-> "set_qsfp_initmod0", index |-> QSFP21_INDEX],
       [name |-> "qsfp22_lpmod", show |-> "show_qsfp_initmod0", store |-> "set_qsfp_initmod0", index |-> QSFP22_INDEX],
       [name |-> "qsfp23_lpmod", show |-> "show_qsfp_initmod0", store |-> "set_qsfp_initmod0", index |-> QSFP23_INDEX],
       [name |-> "qsfp24_lpmod", show |-> "show_qsfp_initmod0", store |-> "set_qsfp_initmod0", index |-> QSFP24_INDEX],
       [name |-> "qsfp25_lpmod", show |-> "show_qsfp_initmod1", store |-> "set_qsfp_initmod1", index |-> QSFP25_INDEX],
       [name |-> "qsfp26_lpmod", show |-> "show_qsfp_initmod1", store |-> "set_qsfp_initmod1", index |-> QSFP26_INDEX],
       [name |-> "qsfp27_lpmod", show |-> "show_qsfp_initmod1", store |-> "set_qsfp_initmod1", index |-> QSFP27_INDEX],
       [name |-> "qsfp28_lpmod", show |-> "show_qsfp_initmod1", store |-> "set_qsfp_initmod1", index |-> QSFP28_INDEX],
       [name |-> "qsfp29_lpmod", show |-> "show_qsfp_initmod1", store |-> "set_qsfp_initmod1", index |-> QSFP29_INDEX],
       [name |-> "qsfp30_lpmod", show |-> "show_qsfp_initmod1", store |-> "set_qsfp_initmod1", index |-> QSFP30_INDEX],
       [name |-> "qsfp31_lpmod", show |-> "show_qsfp_initmod1", store |-> "set_qsfp_initmod1", index |-> QSFP31_INDEX],
       [name |-> "qsfp32_lpmod", show |-> "show_qsfp_initmod1", store |-> "set_qsfp_initmod1", index |-> QSFP32_INDEX],
       [name |-> "qsfp17_modsel", show |-> "show_qsfp_modsel0", store |-> "set_qsfp_modsel0", index |-> QSFP17_INDEX],
       [name |-> "qsfp18_modsel", show |-> "show_qsfp_modsel0", store |-> "set_qsfp_modsel0", index |-> QSFP18_INDEX],
       [name |-> "qsfp19_modsel", show |-> "show_qsfp_modsel0", store |-> "set_qsfp_modsel0", index |-> QSFP19_INDEX],
       [name |-> "qsfp20_modsel", show |-> "show_qsfp_modsel0", store |-> "set_qsfp_modsel0", index |-> QSFP20_INDEX],
       [name |-> "qsfp21_modsel", show |-> "show_qsfp_modsel0", store |-> "set_qsfp_modsel0", index |-> QSFP21_INDEX],
       [name |-> "qsfp22_modsel", show |-> "show_qsfp_modsel0", store |-> "set_qsfp_modsel0", index |-> QSFP22_INDEX],
       [name |-> "qsfp23_modsel", show |-> "show_qsfp_modsel0", store |-> "set_qsfp_modsel0", index |-> QSFP23_INDEX],
       [name |-> "qsfp24_modsel", show |-> "show_qsfp_modsel0", store |-> "set_qsfp_modsel0", index |-> QSFP24_INDEX],
       [name |-> "qsfp25_modsel", show |-> "show_qsfp_modsel1", store |-> "set_qsfp_modsel1", index |-> QSFP25_INDEX],
       [name |-> "qsfp26_modsel", show |-> "show_qsfp_modsel1", store |-> "set_qsfp_modsel1", index |-> QSFP26_INDEX],
       [name |-> "qsfp27_modsel", show |-> "show_qsfp_modsel1", store |-> "set_qsfp_modsel1", index |-> QSFP27_INDEX],
       [name |-> "qsfp28_modsel", show |-> "show_qsfp_modsel1", store |-> "set_qsfp_modsel1", index |-> QSFP28_INDEX],
       [name |-> "qsfp29_modsel", show |-> "show_qsfp_modsel1", store |-> "set_qsfp_modsel1", index |-> QSFP29_INDEX],
       [name |-> "qsfp30_modsel", show |-> "show_qsfp_modsel1", store |-> "set_qsfp_modsel1", index |-> QSFP30_INDEX],
       [name |-> "qsfp31_modsel", show |-> "show_qsfp_modsel1", store |-> "set_qsfp_modsel1", index |-> QSFP31_INDEX],
       [name |-> "qsfp32_modsel", show |-> "show_qsfp_modsel1", store |-> "set_qsfp_modsel1", index |-> QSFP32_INDEX],
       [name |-> "hitless_en", show |-> "show_hitless", store |-> "NULL", index |-> HITLESS_REG_EN],
       [name |-> "qsfp17_prs", show |-> "show_qsfp_modprs0", store |-> "NULL", index |-> QSFP17_INDEX],
       [name |-> "qsfp18_prs", show |-> "show_qsfp_modprs0", store |-> "NULL", index |-> QSFP18_INDEX],
       [name |-> "qsfp19_prs", show |-> "show_qsfp_modprs0", store |-> "NULL", index |-> QSFP19_INDEX],
       [name |-> "qsfp20_prs", show |-> "show_qsfp_modprs0", store |-> "NULL", index |-> QSFP20_INDEX],
       [name |-> "qsfp21_prs", show |-> "show_qsfp_modprs0", store |-> "NULL", index |-> QSFP21_INDEX],
       [name |-> "qsfp22_prs", show |-> "show_qsfp_modprs0", store |-> "NULL", index |-> QSFP22_INDEX],
       [name |-> "qsfp23_prs", show |-> "show_qsfp_modprs0", store |-> "NULL", index |-> QSFP23_INDEX],
       [name |-> "qsfp24_prs", show |-> "show_qsfp_modprs0", store |-> "NULL", index |-> QSFP24_INDEX],
       [name |-> "qsfp25_prs", show |-> "show_qsfp_modprs1", store |-> "NULL", index |-> QSFP25_INDEX],
       [name |-> "qsfp26_prs", show |-> "show_qsfp_modprs1", store |-> "NULL", index |-> QSFP26_INDEX],
       [name |-> "qsfp27_prs", show |-> "show_qsfp_modprs1", store |-> "NULL", index |-> QSFP27_INDEX],
       [name |-> "qsfp28_prs", show |-> "show_qsfp_modprs1", store |-> "NULL", index |-> QSFP28_INDEX],
       [name |-> "qsfp29_prs", show |-> "show_qsfp_modprs1", store |-> "NULL", index |-> QSFP29_INDEX],
       [name |-> "qsfp30_prs", show |-> "show_qsfp_modprs1", store |-> "NULL", index |-> QSFP30_INDEX],
       [name |-> "qsfp31_prs", show |-> "show_qsfp_modprs1", store |-> "NULL", index |-> QSFP31_INDEX],
       [name |-> "qsfp32_prs", show |-> "show_qsfp_modprs1", store |-> "NULL", index |-> QSFP32_INDEX],
       [name |-> "qsfp17_int", show |-> "show_qsfp_int0", store |-> "NULL", index |-> QSFP17_INDEX],
       [name |-> "qsfp18_int", show |-> "show_qsfp_int0", store |-> "NULL", index |-> QSFP18_INDEX],
       [name |-> "qsfp19_int", show |-> "show_qsfp_int0", store |-> "NULL", index |-> QSFP19_INDEX],
       [name |-> "qsfp20_int", show |-> "show_qsfp_int0", store |-> "NULL", index |-> QSFP20_INDEX],
       [name |-> "qsfp21_int", show |-> "show_qsfp_int0", store |-> "NULL", index |-> QSFP21_INDEX],
       [name |-> "qsfp22_int", show |-> "show_qsfp_int0", store |-> "NULL", index |-> QSFP22_INDEX],
       [name |-> "qsfp23_int", show |-> "show_qsfp_int0", store |-> "NULL", index |-> QSFP23_INDEX],
       [name |-> "qsfp24_int", show |-> "show_qsfp_int0", store |-> "NULL", index |-> QSFP24_INDEX],
       [name |-> "qsfp25_int", show |-> "show_qsfp_int1", store |-> "NULL", index |-> QSFP25_INDEX],
       [name |-> "qsfp26_int", show |-> "show_qsfp_int1", store |-> "NULL", index |-> QSFP26_INDEX],
       [name |-> "qsfp27_int", show |-> "show_qsfp_int1", store |-> "NULL", index |-> QSFP27_INDEX],
       [name |-> "qsfp28_int", show |-> "show_qsfp_int1", store |-> "NULL", index |-> QSFP28_INDEX],
       [name |-> "qsfp29_int", show |-> "show_qsfp_int1", store |-> "NULL", index |-> QSFP29_INDEX],
       [name |-> "qsfp30_int", show |-> "show_qsfp_int1", store |-> "NULL", index |-> QSFP30_INDEX],
       [name |-> "qsfp31_int", show |-> "show_qsfp_int1", store |-> "NULL", index |-> QSFP31_INDEX],
       [name |-> "qsfp32_int", show |-> "show_qsfp_int1", store |-> "NULL", index |-> QSFP32_INDEX],
       [name |-> "sfp_tx_fault", show |-> "show_sfp_reg0", store |-> "NULL", index |-> SFP_REG0_TX_FAULT],
       [name |-> "sfp_rx_los", show |-> "show_sfp_reg0", store |-> "NULL", index |-> SFP_REG0_RX_LOS],
       [name |-> "sfp_prs", show |-> "show_sfp_reg0", store |-> "NULL", index |-> SFP_REG0_PRS],
       [name |-> "sfp_tx_en", show |-> "show_sfp_reg1", store |-> "set_sfp_reg1", index |-> SFP_REG1_TX_EN],
       [name |-> "code_day", show |-> "show_code_day", store |-> "NULL", index |-> 0],
       [name |-> "code_month", show |-> "show_code_month", store |-> "NULL", index |-> 0],
       [name |-> "code_year", show |-> "show_code_year", store |-> "NULL", index |-> 0]
    >>

(* a table with a second attribute on the bit of qsfp17_rst *)
Attrs_Alias ==
    { AttrTable[k] : k \in 1 .. Len(AttrTable) } \cup
    { [name |-> "qsfp17_reset", show |-> "show_qsfp_rst0",
       store |-> "set_qsfp_rst0", index |-> QSFP17_INDEX] }

Attrs == { AttrTable[k] : k \in 1 .. Len(AttrTable) }

AttrByName(n) == CHOOSE a \in Attrs : a.name = n

(* handlers in which set_sfp_reg1 works on the SFP status register *)
HandlerReg_SfpSwapped(h) ==
    CASE h \in {"show_led_test", "set_led_test"}           -> LED_TEST_REG
      [] h \in {"show_scratch", "set_scratch"}             -> SCRATCH_REG
      [] h \in {"show_rst", "set_rst"}                     -> RST_REG
      [] h \in {"show_qsfp_rst0", "set_qsfp_rst0"}         -> QSFP_RST_REG0
      [] h \in {"show_qsfp_rst1", "set_qsfp_rst1"}         -> QSFP_RST_REG1
      [] h \in {"show_qsfp_initmod0", "set_qsfp_initmod0"} -> QSFP_INITMOD_REG0
      [] h \in {"show_qsfp_initmod1", "set_qsfp_initmod1"} -> QSFP_INITMOD_REG1
      [] h \in {"show_qsfp_modsel0", "set_qsfp_modsel0"}   -> QSFP_MODSEL_REG0
      [] h \in {"show_qsfp_modsel1", "set_qsfp_modsel1"}   -> QSFP_MODSEL_REG1
      [] h = "show_hitless"                                -> HITLESS_REG
      [] h = "show_qsfp_modprs0"                           -> QSFP_MODPRS_REG0
      [] h = "show_qsfp_modprs1"                           -> QSFP_MODPRS_REG1
      [] h = "show_qsfp_int0"                              -> QSFP_INT_REG0
      [] h = "show_qsfp_int1"                              -> QSFP_INT_REG1
      [] h \in {"show_sfp_reg0", "set_sfp_reg1"}           -> SFP_REG0
      [] h = "show_sfp_reg1"                               -> SFP_REG1

(* the register each show/store handler passes to cpld_i2c_read / _write;  *)
(* "cache" for the handlers that only format a field of struct cpld_data   *)
HandlerReg(h) ==
    CASE h \in {"show_led_test", "set_led_test"}           -> LED_TEST_REG
      [] h \in {"show_scratch", "set_scratch"}             -> SCRATCH_REG
      [] h \in {"show_rst", "set_rst"}                     -> RST_REG
      [] h \in {"show_qsfp_rst0", "set_qsfp_rst0"}         -> QSFP_RST_REG0
      [] h \in {"show_qsfp_rst1", "set_qsfp_rst1"}         -> QSFP_RST_REG1
      [] h \in {"show_qsfp_initmod0", "set_qsfp_initmod0"} -> QSFP_INITMOD_REG0
      [] h \in {"show_qsfp_initmod1", "set_qsfp_initmod1"} -> QSFP_INITMOD_REG1
      [] h \in {"show_qsfp_modsel0", "set_qsfp_modsel0"}   -> QSFP_MODSEL_REG0
      [] h \in {"show_qsfp_modsel1", "set_qsfp_modsel1"}   -> QSFP_MODSEL_REG1
      [] h = "show_hitless"                                -> HITLESS_REG
      [] h = "show_qsfp_modprs0"                           -> QSFP_MODPRS_REG0
      [] h = "show_qsfp_modprs1"                           -> QSFP_MODPRS_REG1
      [] h = "show_qsfp_int0"                              -> QSFP_INT_REG0
      [] h = "show_qsfp_int1"                              -> QSFP_INT_REG1
      [] h = "show_sfp_reg0"                               -> SFP_REG0
      [] h \in {"show_sfp_reg1", "set_sfp_reg1"}           -> SFP_REG1

CachedShow ==
    { "show_code_ver", "show_code_type", "show_code_day", "show_code_month",
      "show_code_year" }

(* the store handlers that do the masked read-modify-write of one bit *)
BitStore ==
    { "set_led_test", "set_rst", "set_qsfp_rst0", "set_qsfp_rst1",
      "set_qsfp_initmod0", "set_qsfp_initmod1", "set_qsfp_modsel0",
      "set_qsfp_modsel1", "set_sfp_reg1" }

(* ---- kstrtou8(buf, base, &usr_val) ---- *)
(* text is a sequence of one-character strings                              *)
DigitVal(ch) ==
    CASE ch = "0" -> 0  [] ch = "1" -> 1  [] ch = "2" -> 2  [] ch = "3" -> 3
      [] ch = "4" -> 4  [] ch = "5" -> 5  [] ch = "6" -> 6  [] ch = "7" -> 7
      [] ch = "8" -> 8  [] ch = "9" -> 9
      [] ch \in {"a", "A"} -> 10  [] ch \in {"b", "B"} -> 11
      [] ch \in {"c", "C"} -> 12  [] ch \in {"d", "D"} -> 13
      [] ch \in {"e", "E"} -> 14  [] ch \in {"f", "F"} -> 15
      [] OTHER -> 99

(* _parse_integer: the digits of s from position p on, in the given base *)
RECURSIVE ParseInteger(_, _, _, _, _)
ParseInteger(s, p, base, acc, n) ==
    IF p <= Len(s) /\ DigitVal(s[p]) < base
    THEN ParseInteger(s, p + 1, base, acc * base + DigitVal(s[p]), n + 1)
    ELSE [val |-> acc, rv |-> n, next |-> p]

(* result: [ret |-> 0, val |-> v] or [ret |-> -errno, val |-> 0]; usr_val    *)
(* is initialised to 0 by every caller and left alone on failure            *)
kstrtou8(s, base) ==
    LET p0 == IF Len(s) >= 1 /\ s[1] = "+" THEN 2 ELSE 1
        p1 == IF base = 16 /\ Len(s) >= p0 + 1 /\ s[p0] = "0"
                 /\ s[p0 + 1] \in {"x", "X"}
              THEN p0 + 2 ELSE p0
        r  == ParseInteger(s, p1, base, 0, 0)
        p2 == IF r.next <= Len(s) /\ s[r.next] = "\n" THEN r.next + 1 ELSE r.next
    IN  IF r.rv = 0 THEN [ret |-> -EINVAL, val |-> 0]
        ELSE IF p2 <= Len(s) THEN [ret |-> -EINVAL, val |-> 0]
        ELSE IF r.val # ToU8(r.val) THEN [ret |-> -ERANGE, val |-> 0]
        ELSE [ret |-> 0, val |-> r.val]

(* a show that tests bit 0 whatever the attribute's index *)
sprintf_bit_NoShift(val, index) ==
    IF And8(val, 1) # 0 THEN <<"1", "\n">> ELSE <<"0", "\n">>

(* sprintf(buf, "%d\n", (val >> index) & 0x1 ? 1 : 0) *)
sprintf_bit(val, index) ==
    IF And8(Shr(val, index), 1) # 0 THEN <<"1", "\n">> ELSE <<"0", "\n">>

(* ---- sprintf conversions used by the show handlers ---- *)
HexChar(d) ==
    CASE d = 0 -> "0" [] d = 1 -> "1" [] d = 2 -> "2" [] d = 3 -> "3"
      [] d = 4 -> "4" [] d = 5 -> "5" [] d = 6 -> "6" [] d = 7 -> "7"
      [] d = 8 -> "8" [] d = 9 -> "9" [] d = 10 -> "a" [] d = 11 -> "b"
      [] d = 12 -> "c" [] d = 13 -> "d" [] d = 14 -> "e" [] d = 15 -> "f"

RECURSIVE Digits(_, _)
Digits(n, base) ==
    IF n < base THEN <<HexChar(n)>>
    ELSE Digits(n \div base, base) \o <<HexChar(n % base)>>

(* "%x" of an int argument: printed as unsigned int *)
FormatHex(n) ==
    IF n >= 0 THEN Digits(n, 16)
    ELSE [k \in 1 .. 8 |-> HexChar((n \div (16 ^ (8 - k))) % 16)]

(* "%02x" *)
FormatHex02(n) ==
    LET d == FormatHex(n) IN IF Len(d) < 2 THEN <<"0">> \o d ELSE d

(* "%d" *)
FormatDec(n) == IF n < 0 THEN <<"-">> \o Digits(-n, 10) ELSE Digits(n, 10)

(* show handlers in which show_code_month prints the day field *)
sprintf_cached_MonthAsDay(show, cd) ==
    CASE show = "show_code_ver"   -> <<"0", "x">> \o FormatHex02(cd.code_ver) \o <<"\n">>
      [] show = "show_code_type"  -> FormatHex(cd.code_type) \o <<"\n">>
      [] show = "show_code_day"   -> FormatDec(cd.code_day) \o <<"\n">>
      [] show = "show_code_month" -> FormatDec(cd.code_day) \o <<"\n">>
      [] show = "show_code_year"  -> FormatDec(cd.code_year) \o <<"\n">>

(* show_code_ver .. show_code_year: format one cached field *)
sprintf_cached(show, cd) ==
    CASE show = "show_code_ver"   -> <<"0", "x">> \o FormatHex02(cd.code_ver) \o <<"\n">>
      [] show = "show_code_type"  -> FormatHex(cd.code_type) \o <<"\n">>
      [] show = "show_code_day"   -> FormatDec(cd.code_day) \o <<"\n">>
      [] show = "show_code_month" -> FormatDec(cd.code_month) \o <<"\n">>
      [] show = "show_code_year"  -> FormatDec(cd.code_year) \o <<"\n">>

(* show_scratch: sprintf(buf, "%02x\n", val) *)
sprintf_scratch(val) == FormatHex02(val) \o <<"\n">>

(* ---- bounds of the model ---- *)
MaxCalls == 2
MaxFaults == 1

Clients == {"c0", "c1"}
Threads == {"t1", "t2"}

(* contents the device registers may hold when the driver binds *)
InitBytes == {165}

(* errno values the SMBus transfer functions may return *)
TransportErrs == {-EIO}

VARIABLES
    regs,        \* regs[c][r]: the byte in hardware register r of device c
    regs0,       \* the registers' contents when the model starts
    adapter,     \* adapter[c]: i2c_check_functionality(I2C_FUNC_SMBUS_BYTE_DATA)
    ppc,         \* ppc[c]: where probe / remove of client c stands
    pidx,        \* pidx[c]: the register access of probe that is next
    pphase,      \* pphase[c]: "lock" or "xfer" within that access
    status,      \* status[c]: what probe returned
    heap,        \* heap[c]: the kzalloc'ed struct cpld_data
    clientdata,  \* clientdata[c]: i2c_get_clientdata(client)
    mutex,       \* mutex[c]: owner of data->update_lock
    cache,       \* cache[c]: code_ver .. code_year of struct cpld_data
    sysfs,       \* sysfs[c]: the attribute group is registered
    plog,        \* plog[c]: the bus transactions probe has completed
    pc,          \* pc[t]: "idle", "lock", "xfer"
    op,          \* op[t]: the handler call thread t is running / ran last
    ret,         \* ret[t]: return value and text of the last handler call
    tlog,        \* tlog[t]: the bus transactions of the current handler call
    ncalls,      \* handler calls entered so far
    faults       \* failures injected so far

vars ==
    << regs, regs0, adapter, ppc, pidx, pphase, status, heap, clientdata,
       mutex, cache, sysfs, plog, pc, op, ret, tlog, ncalls, faults >>

(* the hardware and bus adapter as found; the state of probe; the driver's  *)
(* data; the state of the threads in the handlers                           *)
envvars == << regs0, adapter >>
probevars == << ppc, pidx, pphase, status >>
datavars == << heap, clientdata, cache, sysfs, plog >>
threadvars == << pc, op, ret, tlog, ncalls >>

(* ---- struct cpld_data and the calls of one handler ---- *)
(* kzalloc returns zeroed memory *)
ZeroData ==
    [code_ver |-> 0, code_type |-> 0, code_day |-> 0, code_month |-> 0,
     code_year |-> 0]

NoOp ==
    [dev |-> "c0", attr |-> "none", kind |-> "none", reg |-> 0, index |-> 0,
     buf |-> <<>>, usr_val |-> 0, stage |-> "none", wval |-> 0, val |-> 0]

NoRet == [n |-> 0, buf |-> <<>>]

(* a register access that never waits for the lock *)
MutexAvailable_NoWait(c) == TRUE

(* one lock shared by all devices *)
MutexAvailable_Global(c) == \A d \in DOMAIN mutex : mutex[d] \in {"free", "uninit"}

(* ---- the register access layer: cpld_i2c_read / cpld_i2c_write ---- *)
(* mutex_lock(&data->update_lock) returns once the lock is free *)
MutexAvailable(c) == mutex[c] = "free"

(* what i2c_smbus_read_byte_data(client, reg) may return: the byte, or a   *)
(* negative errno                                                          *)
ReadOutcomes(c, reg) ==
    {regs[c][reg]} \cup (IF faults < MaxFaults THEN TransportErrs ELSE {})

(* what i2c_smbus_write_byte_data(client, reg, value) may return *)
WriteOutcomes ==
    {0} \cup (IF faults < MaxFaults THEN TransportErrs ELSE {})

(* the device after a write transfer that returned res *)
RegsAfterWrite(c, reg, value, res) ==
    IF res = 0 THEN [regs EXCEPT ![c][reg] = value] ELSE regs

Fault(res) == IF res < 0 THEN faults + 1 ELSE faults

(* a mask that clears nothing *)
ClearMask_Full(index) == 255

(* ---- the bit arithmetic of the store handlers ---- *)
(* mask = (~(1 << sda->index)) & 0xFF *)
ClearMask(index) == And8(Not8(Pow2(index)), 255)

(* a store that writes the shifted value without the bits it read *)
StoreByte_NoMerge(val, index, usr_val) == Shl8(usr_val, index)

(* reg_val = read; reg_val = reg_val & mask; usr_val = usr_val << index;    *)
(* the byte handed to cpld_i2c_write is (reg_val | usr_val)                 *)
StoreByte(val, index, usr_val) ==
    Or8(And8(ToU8(val), ClearMask(index)), Shl8(usr_val, index))

(* a store handler without its range check *)
UsrValRejected_Never(store, usr_val) == FALSE

(* if (usr_val > 1) return -EINVAL *)
UsrValRejected(store, usr_val) ==
    IF store \in BitStore THEN usr_val > 1 ELSE usr_val > 255

(* every store handler parsing its text as decimal *)
StoreBase_Decimal(store) == 10

StoreBase(store) == IF store = "set_scratch" THEN 16 ELSE 10

(* ---- sysfs handlers run by thread t ---- *)
(* a show handler is entered: the cached ones return at once, the others   *)
(* call cpld_i2c_read                                                       *)
ShowBegin(t, c, a) ==
    /\ pc[t] = "idle"
    /\ sysfs[c]
    /\ ncalls' = ncalls + 1
    /\ tlog' = [tlog EXCEPT ![t] = <<>>]
    /\ IF a.show \in CachedShow
       THEN /\ op' = [op EXCEPT ![t] = [NoOp EXCEPT !.dev = c, !.attr = a.name,
                                                    !.kind = "show"]]
            /\ LET text == sprintf_cached(a.show, cache[c])
               IN  ret' = [ret EXCEPT ![t] = [n |-> Len(text), buf |-> text]]
            /\ UNCHANGED pc
       ELSE /\ op' = [op EXCEPT ![t] = [NoOp EXCEPT !.dev = c, !.attr = a.name,
                                   !.kind = "show", !.reg = HandlerReg(a.show),
                                   !.index = a.index, !.stage = "read"]]
            /\ pc' = [pc EXCEPT ![t] = "lock"]
            /\ ret' = [ret EXCEPT ![t] = NoRet]
    /\ UNCHANGED << regs, envvars, probevars, datavars, mutex, faults >>

(* a store handler is entered with the text buf: kstrtou8, the range check, *)
(* then the first register access                                           *)
StoreBegin(t, c, a, buf) ==
    /\ pc[t] = "idle"
    /\ sysfs[c]
    /\ a.store # "NULL"
    /\ ncalls' = ncalls + 1
    /\ tlog' = [tlog EXCEPT ![t] = <<>>]
    /\ LET r  == kstrtou8(buf, StoreBase(a.store))
           o  == [NoOp EXCEPT !.dev = c, !.attr = a.name, !.kind = "store",
                              !.reg = HandlerReg(a.store), !.index = a.index,
                              !.buf = buf, !.usr_val = r.val]
       IN  IF r.ret # 0
           THEN /\ op' = [op EXCEPT ![t] = o]
                /\ ret' = [ret EXCEPT ![t] = [n |-> r.ret, buf |-> <<>>]]
                /\ UNCHANGED pc
           ELSE IF UsrValRejected(a.store, r.val)
           THEN /\ op' = [op EXCEPT ![t] = o]
                /\ ret' = [ret EXCEPT ![t] = [n |-> -EINVAL, buf |-> <<>>]]
                /\ UNCHANGED pc
           ELSE /\ op' = [op EXCEPT ![t] =
                            IF a.store \in BitStore
                            THEN [o EXCEPT !.stage = "read"]
                            ELSE [o EXCEPT !.stage = "write", !.wval = r.val]]
                /\ ret' = [ret EXCEPT ![t] = NoRet]
                /\ pc' = [pc EXCEPT ![t] = "lock"]
    /\ UNCHANGED << regs, envvars, probevars, datavars, mutex, faults >>

(* mutex_lock in cpld_i2c_read / cpld_i2c_write; the SMBus call starts *)
ThreadLock(t) ==
    /\ pc[t] = "lock"
    /\ MutexAvailable(op[t].dev)
    /\ mutex' = [mutex EXCEPT ![op[t].dev] = t]
    /\ pc' = [pc EXCEPT ![t] = "xfer"]
    /\ UNCHANGED << regs, envvars, probevars, datavars, op, ret, tlog, ncalls,
                    faults >>

(* handlers that repeat a failed register read *)
AfterCall_Retry(t, o) ==
    IF o.stage = "read" /\ o.val < 0
    THEN /\ op' = [op EXCEPT ![t] = o]
         /\ pc' = [pc EXCEPT ![t] = "lock"]
         /\ UNCHANGED ret
    ELSE IF o.kind = "show"
    THEN /\ LET text == IF o.attr = "scratch"
                        THEN sprintf_scratch(ToU8(o.val))
                        ELSE sprintf_bit(ToU8(o.val), o.index)
            IN  ret' = [ret EXCEPT ![t] = [n |-> Len(text), buf |-> text]]
         /\ pc' = [pc EXCEPT ![t] = "idle"]
         /\ op' = [op EXCEPT ![t] = o]
    ELSE IF o.stage = "read"
    THEN /\ op' = [op EXCEPT ![t] =
                     [o EXCEPT !.stage = "write",
                               !.wval = StoreByte(o.val, o.index, o.usr_val)]]
         /\ pc' = [pc EXCEPT ![t] = "lock"]
         /\ UNCHANGED ret
    ELSE /\ ret' = [ret EXCEPT ![t] = [n |-> Len(o.buf), buf |-> <<>>]]
         /\ pc' = [pc EXCEPT ![t] = "idle"]
         /\ op' = [op EXCEPT ![t] = o]

(* what the handler does with the value cpld_i2c_read / _write handed back: *)
(* a show handler formats it and returns, a store handler computes the     *)
(* byte to write after its read, and returns count after its write          *)
AfterCall(t, o) ==
    IF o.kind = "show"
    THEN /\ LET text == IF o.attr = "scratch"
                        THEN sprintf_scratch(ToU8(o.val))
                        ELSE sprintf_bit(ToU8(o.val), o.index)
            IN  ret' = [ret EXCEPT ![t] = [n |-> Len(text), buf |-> text]]
         /\ pc' = [pc EXCEPT ![t] = "idle"]
         /\ op' = [op EXCEPT ![t] = o]
    ELSE IF o.stage = "read"
    THEN /\ op' = [op EXCEPT ![t] =
                     [o EXCEPT !.stage = "write",
                               !.wval = StoreByte(o.val, o.index, o.usr_val)]]
         /\ pc' = [pc EXCEPT ![t] = "lock"]
         /\ UNCHANGED ret
    ELSE /\ ret' = [ret EXCEPT ![t] = [n |-> Len(o.buf), buf |-> <<>>]]
         /\ pc' = [pc EXCEPT ![t] = "idle"]
         /\ op' = [op EXCEPT ![t] = o]

(* a register access that returns without mutex_unlock when the transfer   *)
(* failed                                                                   *)
ThreadXfer_KeepLockOnError(t) ==
    /\ pc[t] = "xfer"
    /\ LET c == op[t].dev
           r == op[t].reg
       IN  IF op[t].stage = "read"
           THEN \E v \in ReadOutcomes(c, r) :
                  /\ tlog' = [tlog EXCEPT ![t] =
                        Append(@, [k |-> "rd", reg |-> r, val |-> v,
                                   res |-> IF v < 0 THEN v ELSE 0])]
                  /\ faults' = Fault(v)
                  /\ AfterCall(t, [op[t] EXCEPT !.val = v])
                  /\ UNCHANGED regs
           ELSE \E res \in WriteOutcomes :
                  /\ regs' = RegsAfterWrite(c, r, op[t].wval, res)
                  /\ tlog' = [tlog EXCEPT ![t] =
                        Append(@, [k |-> "wr", reg |-> r, val |-> op[t].wval,
                                   res |-> res])]
                  /\ faults' = Fault(res)
                  /\ AfterCall(t, [op[t] EXCEPT !.val = res])
    /\ mutex' = IF faults' = faults
                THEN [mutex EXCEPT ![op[t].dev] = "free"]
                ELSE mutex
    /\ UNCHANGED << envvars, probevars, datavars, ncalls >>

(* i2c_smbus_read_byte_data / i2c_smbus_write_byte_data returns, then       *)
(* mutex_unlock, the return of cpld_i2c_read / _write, and the handler's    *)
(* code up to its next register access or its return                        *)
ThreadXfer(t) ==
    /\ pc[t] = "xfer"
    /\ LET c == op[t].dev
           r == op[t].reg
       IN  IF op[t].stage = "read"
           THEN \E v \in ReadOutcomes(c, r) :
                  /\ tlog' = [tlog EXCEPT ![t] =
                        Append(@, [k |-> "rd", reg |-> r, val |-> v,
                                   res |-> IF v < 0 THEN v ELSE 0])]
                  /\ faults' = Fault(v)
                  /\ AfterCall(t, [op[t] EXCEPT !.val = v])
                  /\ UNCHANGED regs
           ELSE \E res \in WriteOutcomes :
                  /\ regs' = RegsAfterWrite(c, r, op[t].wval, res)
                  /\ tlog' = [tlog EXCEPT ![t] =
                        Append(@, [k |-> "wr", reg |-> r, val |-> op[t].wval,
                                   res |-> res])]
                  /\ faults' = Fault(res)
                  /\ AfterCall(t, [op[t] EXCEPT !.val = res])
    /\ mutex' = [mutex EXCEPT ![op[t].dev] = "free"]
    /\ UNCHANGED << envvars, probevars, datavars, ncalls >>

(* a probe that clears module-select first and asserts reset last *)
ProbeIO_SelectFirst ==
    << [k |-> "rd", reg |-> CODE_REV_REG,      field |-> "code_ver",   val |-> 0],
       [k |-> "rd", reg |-> CODE_REV_REG,      field |-> "code_type",  val |-> 0],
       [k |-> "rd", reg |-> CODE_DAY_REG,      field |-> "code_day",   val |-> 0],
       [k |-> "rd", reg |-> CODE_MONTH_REG,    field |-> "code_month", val |-> 0],
       [k |-> "rd", reg |-> CODE_YEAR_REG,     field |-> "code_year",  val |-> 0],
       [k |-> "wr", reg |-> QSFP_MODSEL_REG0,  field |-> "none",       val |-> 0],
       [k |-> "wr", reg |-> QSFP_MODSEL_REG1,  field |-> "none",       val |-> 0],
       [k |-> "wr", reg |-> QSFP_INITMOD_REG0, field |-> "none",       val |-> 0],
       [k |-> "wr", reg |-> QSFP_INITMOD_REG1, field |-> "none",       val |-> 0],
       [k |-> "wr", reg |-> QSFP_RST_REG0,     field |-> "none",       val |-> 255],
       [k |-> "wr", reg |-> QSFP_RST_REG1,     field |-> "none",       val |-> 255] >>

(* ---- h4_32d_swpld3_probe ---- *)
(* the register accesses of probe, in program order *)
ProbeIO ==
    << [k |-> "rd", reg |-> CODE_REV_REG,      field |-> "code_ver",   val |-> 0],
       [k |-> "rd", reg |-> CODE_REV_REG,      field |-> "code_type",  val |-> 0],
       [k |-> "rd", reg |-> CODE_DAY_REG,      field |-> "code_day",   val |-> 0],
       [k |-> "rd", reg |-> CODE_MONTH_REG,    field |-> "code_month", val |-> 0],
       [k |-> "rd", reg |-> CODE_YEAR_REG,     field |-> "code_year",  val |-> 0],
       [k |-> "wr", reg |-> QSFP_RST_REG0,     field |-> "none",       val |-> 255],
       [k |-> "wr", reg |-> QSFP_RST_REG1,     field |-> "none",       val |-> 255],
       [k |-> "wr", reg |-> QSFP_INITMOD_REG0, field |-> "none",       val |-> 0],
       [k |-> "wr", reg |-> QSFP_INITMOD_REG1, field |-> "none",       val |-> 0],
       [k |-> "wr", reg |-> QSFP_MODSEL_REG0,  field |-> "none",       val |-> 0],
       [k |-> "wr", reg |-> QSFP_MODSEL_REG1,  field |-> "none",       val |-> 0] >>

(* the assignment probe makes from the int cpld_i2c_read returned *)
ProbeAssign(cd, field, val) ==
    CASE field = "code_ver"   -> [cd EXCEPT !.code_ver = And8(val, CODE_REV_REG_VER_MSK)]
      [] field = "code_type"  -> [cd EXCEPT !.code_type = Shr(val, CODE_REV_REG_TYPE)]
      [] field = "code_day"   -> [cd EXCEPT !.code_day = val]
      [] field = "code_month" -> [cd EXCEPT !.code_month = val]
      [] field = "code_year"  -> [cd EXCEPT !.code_year = val]
      [] OTHER                -> cd

(* a probe that does not look at the adapter's functionality *)
FunctionalityMissing_Ignored(c) == FALSE

(* !i2c_check_functionality(client->adapter, I2C_FUNC_SMBUS_BYTE_DATA) *)
FunctionalityMissing(c) == ~adapter[c]

(* probe up to kzalloc: the functionality check *)
ProbeCheck(c) ==
    /\ ppc[c] = "unbound"
    /\ IF FunctionalityMissing(c)
       THEN /\ status' = [status EXCEPT ![c] = -EIO]
            /\ ppc' = [ppc EXCEPT ![c] = "failed"]
       ELSE /\ ppc' = [ppc EXCEPT ![c] = "alloc"]
            /\ UNCHANGED status
    /\ UNCHANGED << regs, envvars, pidx, pphase, datavars, mutex, threadvars,
                    faults >>

(* kzalloc; on success data->client, i2c_set_clientdata, mutex_init *)
ProbeAlloc(c) ==
    /\ ppc[c] = "alloc"
    /\ \/ /\ heap' = [heap EXCEPT ![c] = "allocated"]
          /\ cache' = [cache EXCEPT ![c] = ZeroData]
          /\ clientdata' = [clientdata EXCEPT ![c] = "data"]
          /\ mutex' = [mutex EXCEPT ![c] = "free"]
          /\ ppc' = [ppc EXCEPT ![c] = "sysfs"]
          /\ UNCHANGED << status, faults >>
       \/ /\ faults < MaxFaults
          /\ faults' = faults + 1
          /\ status' = [status EXCEPT ![c] = -ENOMEM]
          /\ ppc' = [ppc EXCEPT ![c] = "failed"]
          /\ UNCHANGED << heap, cache, clientdata, mutex >>
    /\ UNCHANGED << regs, envvars, pidx, pphase, sysfs, plog, threadvars >>

(* sysfs_create_group; a non-zero status goes to exit *)
ProbeSysfs(c) ==
    /\ ppc[c] = "sysfs"
    /\ \/ /\ sysfs' = [sysfs EXCEPT ![c] = TRUE]
          /\ ppc' = [ppc EXCEPT ![c] = "io"]
          /\ pidx' = [pidx EXCEPT ![c] = 1]
          /\ pphase' = [pphase EXCEPT ![c] = "lock"]
          /\ UNCHANGED << status, faults >>
       \/ /\ faults < MaxFaults
          /\ faults' = faults + 1
          /\ status' = [status EXCEPT ![c] = -ENOMEM]
          /\ ppc' = [ppc EXCEPT ![c] = "failed"]
          /\ UNCHANGED << sysfs, pidx, pphase >>
    /\ UNCHANGED << regs, envvars, heap, clientdata, mutex, cache, plog,
                    threadvars >>

(* mutex_lock inside the cpld_i2c_read / _write call probe is at; the SMBus *)
(* call starts                                                              *)
ProbeLock(c) ==
    /\ ppc[c] = "io"
    /\ pphase[c] = "lock"
    /\ MutexAvailable(c)
    /\ mutex' = [mutex EXCEPT ![c] = "probe"]
    /\ pphase' = [pphase EXCEPT ![c] = "xfer"]
    /\ UNCHANGED << regs, envvars, ppc, pidx, status, datavars, threadvars,
                    faults >>

(* a probe that gives up at the first failed transfer *)
ProbeAdvance_StopOnError(c) ==
    IF plog'[c][Len(plog'[c])].res < 0
    THEN /\ ppc' = [ppc EXCEPT ![c] = "failed"]
         /\ status' = [status EXCEPT ![c] = plog'[c][Len(plog'[c])].res]
         /\ pphase' = [pphase EXCEPT ![c] = "none"]
         /\ UNCHANGED pidx
    ELSE IF pidx[c] < Len(ProbeIO)
    THEN /\ pidx' = [pidx EXCEPT ![c] = @ + 1]
         /\ pphase' = [pphase EXCEPT ![c] = "lock"]
         /\ UNCHANGED << ppc, status >>
    ELSE /\ ppc' = [ppc EXCEPT ![c] = "done"]
         /\ status' = [status EXCEPT ![c] = 0]
         /\ pphase' = [pphase EXCEPT ![c] = "none"]
         /\ UNCHANGED pidx

(* after the call has returned: probe goes on to its next access, or       *)
(* returns 0 after the last one                                             *)
ProbeAdvance(c) ==
    IF pidx[c] < Len(ProbeIO)
    THEN /\ pidx' = [pidx EXCEPT ![c] = @ + 1]
         /\ pphase' = [pphase EXCEPT ![c] = "lock"]
         /\ UNCHANGED << ppc, status >>
    ELSE /\ ppc' = [ppc EXCEPT ![c] = "done"]
         /\ status' = [status EXCEPT ![c] = 0]
         /\ pphase' = [pphase EXCEPT ![c] = "none"]
         /\ UNCHANGED pidx

(* the SMBus transfer of that call returns, then mutex_unlock, the call     *)
(* returns and probe stores what a read handed back                         *)
ProbeXfer(c) ==
    /\ ppc[c] = "io"
    /\ pphase[c] = "xfer"
    /\ LET io == ProbeIO[pidx[c]]
       IN  IF io.k = "rd"
           THEN \E v \in ReadOutcomes(c, io.reg) :
                  /\ plog' = [plog EXCEPT ![c] =
                        Append(@, [k |-> "rd", reg |-> io.reg, val |-> v,
                                   res |-> IF v < 0 THEN v ELSE 0])]
                  /\ faults' = Fault(v)
                  /\ cache' = [cache EXCEPT ![c] = ProbeAssign(@, io.field, v)]
                  /\ UNCHANGED regs
           ELSE \E res \in WriteOutcomes :
                  /\ regs' = RegsAfterWrite(c, io.reg, io.val, res)
                  /\ plog' = [plog EXCEPT ![c] =
                        Append(@, [k |-> "wr", reg |-> io.reg, val |-> io.val,
                                   res |-> res])]
                  /\ faults' = Fault(res)
                  /\ UNCHANGED cache
    /\ mutex' = [mutex EXCEPT ![c] = "free"]
    /\ ProbeAdvance(c)
    /\ UNCHANGED << envvars, heap, clientdata, sysfs, threadvars >>

(* ---- h4_32d_swpld3_remove ---- *)
(* sysfs_remove_group: no handler is entered from here on *)
RemoveGroup(c) ==
    /\ ppc[c] = "done"
    /\ sysfs' = [sysfs EXCEPT ![c] = FALSE]
    /\ ppc' = [ppc EXCEPT ![c] = "removing"]
    /\ UNCHANGED << regs, envvars, pidx, pphase, status, heap, clientdata,
                    cache, plog, mutex, threadvars, faults >>

(* a remove that clears a module-select register before freeing *)
RemoveFree_ClearSelect(c) ==
    /\ ppc[c] = "removing"
    /\ \A t \in Threads : pc[t] = "idle" \/ op[t].dev # c
    /\ regs' = [regs EXCEPT ![c][QSFP_MODSEL_REG0] = 255]
    /\ heap' = [heap EXCEPT ![c] = "freed"]
    /\ ppc' = [ppc EXCEPT ![c] = "removed"]
    /\ UNCHANGED << envvars, pidx, pphase, status, clientdata, cache,
                    sysfs, plog, mutex, threadvars, faults >>

(* sysfs_remove_group returns once the handlers still running have left;    *)
(* then kfree(data)                                                         *)
RemoveFree(c) ==
    /\ ppc[c] = "removing"
    /\ \A t \in Threads : pc[t] = "idle" \/ op[t].dev # c
    /\ heap' = [heap EXCEPT ![c] = "freed"]
    /\ ppc' = [ppc EXCEPT ![c] = "removed"]
    /\ UNCHANGED << regs, envvars, pidx, pphase, status, clientdata, cache,
                    sysfs, plog, mutex, threadvars, faults >>

(* ---- the driver's life on one device, with two threads using sysfs ---- *)
InitIdle ==
    /\ regs0 = regs
    /\ pc = [t \in Threads |-> "idle"]
    /\ op = [t \in Threads |-> NoOp]
    /\ ret = [t \in Threads |-> NoRet]
    /\ tlog = [t \in Threads |-> <<>>]
    /\ ncalls = 0
    /\ faults = 0

(* the registers of a device before the driver has touched it *)
InitRegs(v0) == [c \in Clients |-> [r \in RegAddrs |-> (v0 + r) % 256]]

(* client c0 is about to be probed; c1 is not present *)
Init ==
    /\ \E v0 \in InitBytes : regs = InitRegs(v0)
    /\ \E ok \in BOOLEAN : adapter = [c \in Clients |-> IF c = "c0" THEN ok ELSE TRUE]
    /\ ppc = [c \in Clients |-> IF c = "c0" THEN "unbound" ELSE "absent"]
    /\ pidx = [c \in Clients |-> 1]
    /\ pphase = [c \in Clients |-> "none"]
    /\ status = [c \in Clients |-> 0]
    /\ heap = [c \in Clients |-> "none"]
    /\ clientdata = [c \in Clients |-> "NULL"]
    /\ mutex = [c \in Clients |-> "uninit"]
    /\ cache = [c \in Clients |-> ZeroData]
    /\ sysfs = [c \in Clients |-> FALSE]
    /\ plog = [c \in Clients |-> <<>>]
    /\ InitIdle

(* the attributes and texts the threads use while the driver binds *)
LifeShow == { AttrByName(n) : n \in {"qsfp17_rst"} }
LifeStore == { AttrByName(n) : n \in {"qsfp17_rst"} }
LifeBufs == { <<"0">> }

(* callers are interchangeable: a new call runs in the first idle thread *)
FirstIdle(t) == \A u \in Threads : pc[u] = "idle" => (u = t \/ u = "t2")

Next ==
    \/ \E c \in Clients : ProbeCheck(c)
    \/ \E c \in Clients : ProbeAlloc(c)
    \/ \E c \in Clients : ProbeSysfs(c)
    \/ \E c \in Clients : ProbeLock(c)
    \/ \E c \in Clients : ProbeXfer(c)
    \/ \E c \in Clients : RemoveGroup(c)
    \/ \E c \in Clients : RemoveFree(c)
    \/ \E t \in Threads, c \in Clients, a \in LifeShow :
          ncalls < MaxCalls /\ FirstIdle(t) /\ ShowBegin(t, c, a)
    \/ \E t \in Threads, c \in Clients, a \in LifeStore, buf \in LifeBufs :
          ncalls < MaxCalls /\ FirstIdle(t) /\ StoreBegin(t, c, a, buf)
    \/ \E t \in Threads : ThreadLock(t)
    \/ \E t \in Threads : ThreadXfer(t)

Spec == Init /\ [][Next]_vars

(* ---- a bound device: the state probe leaves when nothing failed ---- *)
(* the registers after the bring-up writes of probe *)
ReadyRegs(r0) ==
    LET f[i \in 0 .. Len(ProbeIO)] ==
          IF i = 0 THEN r0
          ELSE IF ProbeIO[i].k = "wr"
               THEN [f[i - 1] EXCEPT ![ProbeIO[i].reg] = ProbeIO[i].val]
               ELSE f[i - 1]
    IN  f[Len(ProbeIO)]

(* the fields probe cached from the identification registers *)
ReadyCache(r0) ==
    LET f[i \in 0 .. Len(ProbeIO)] ==
          IF i = 0 THEN ZeroData
          ELSE IF ProbeIO[i].k = "rd"
               THEN ProbeAssign(f[i - 1], ProbeIO[i].field, r0[ProbeIO[i].reg])
               ELSE f[i - 1]
    IN  f[Len(ProbeIO)]

ReadyLog(r0) ==
    [i \in 1 .. Len(ProbeIO) |->
       [k |-> ProbeIO[i].k, reg |-> ProbeIO[i].reg,
        val |-> IF ProbeIO[i].k = "rd" THEN r0[ProbeIO[i].reg] ELSE ProbeIO[i].val,
        res |-> 0]]

(* client c0 is bound, probe has returned 0; r0 is what its registers held  *)
(* before probe, now is what they hold                                      *)
Bound(r0, now) ==
    /\ regs = [c \in Clients |-> IF c = "c0" THEN now ELSE r0]
    /\ adapter = [c \in Clients |-> TRUE]
    /\ ppc = [c \in Clients |-> IF c = "c0" THEN "done" ELSE "absent"]
    /\ pidx = [c \in Clients |-> IF c = "c0" THEN Len(ProbeIO) ELSE 1]
    /\ pphase = [c \in Clients |-> "none"]
    /\ status = [c \in Clients |-> 0]
    /\ heap = [c \in Clients |-> IF c = "c0" THEN "allocated" ELSE "none"]
    /\ clientdata = [c \in Clients |-> IF c = "c0" THEN "data" ELSE "NULL"]
    /\ mutex = [c \in Clients |-> IF c = "c0" THEN "free" ELSE "uninit"]
    /\ cache = [c \in Clients |-> IF c = "c0" THEN ReadyCache(r0) ELSE ZeroData]
    /\ sysfs = [c \in Clients |-> c = "c0"]
    /\ plog = [c \in Clients |-> IF c = "c0" THEN ReadyLog(r0) ELSE <<>>]

(* ---- two threads storing to attributes of one register ---- *)
InitConc ==
    /\ \E v0 \in InitBytes :
          Bound(InitRegs(v0)["c0"], ReadyRegs(InitRegs(v0)["c0"]))
    /\ InitIdle

ConcAttrs == { AttrByName(n) : n \in {"qsfp17_rst", "qsfp18_rst"} }
ConcBufs == { <<"0">>, <<"1">> }

NextConc ==
    \/ \E t \in Threads, a \in ConcAttrs :
          ncalls < MaxCalls /\ ShowBegin(t, "c0", a)
    \/ \E t \in Threads, a \in ConcAttrs, buf \in ConcBufs :
          ncalls < MaxCalls /\ StoreBegin(t, "c0", a, buf)
    \/ \E t \in Threads : ThreadLock(t)
    \/ \E t \in Threads : ThreadXfer(t)

SpecConc == InitConc /\ [][NextConc]_vars

(* ---- one thread: a store, then a show of the same attribute ---- *)
(* the registers hold what the hardware and earlier stores left: any byte   *)
InitRmw ==
    /\ \E v0 \in Byte :
          Bound(InitRegs(v0)["c0"], InitRegs(v0)["c0"])
    /\ InitIdle

RmwAttrs ==
    { AttrByName(n) : n \in
        { "qsfp17_rst", "qsfp18_rst", "qsfp19_rst", "qsfp20_rst", "qsfp21_rst",
          "qsfp22_rst", "qsfp23_rst", "qsfp24_rst", "qsfp32_rst",
          "qsfp17_lpmod", "qsfp26_modsel", "led_test_blink", "sfp_tx_en",
          "scratch" } }

RmwBufs ==
    { <<"0">>, <<"1">>, <<"1", "\n">>, <<"2">>, <<"2", "5", "6">>, <<"x">>,
      <<>>, <<"-", "1">> }

NextRmw ==
    \/ \E a \in RmwAttrs, buf \in RmwBufs :
          op["t1"].kind = "none" /\ StoreBegin("t1", "c0", a, buf)
    \/ \E a \in RmwAttrs :
          /\ op["t1"].kind = "store"
          /\ op["t1"].attr = a.name
          /\ ret["t1"].n > 0
          /\ ShowBegin("t1", "c0", a)
    \/ ThreadLock("t1")
    \/ ThreadXfer("t1")

SpecRmw == InitRmw /\ [][NextRmw]_vars

(* ======================= properties ======================= *)
(* thread t has completed the read of a bit store and not yet its write *)
MidRmw(t) ==
    /\ pc[t] \in {"lock", "xfer"}
    /\ op[t].kind = "store"
    /\ Len(tlog[t]) = 1
    /\ tlog[t][1].k = "rd"

(* a bus transaction of someone other than t completes on t's device in    *)
(* this step                                                                *)
OtherTransaction(t) ==
    \/ \E u \in Threads \ {t} :
          /\ pc[u] = "xfer"
          /\ op[u].dev = op[t].dev
          /\ Len(tlog'[u]) = Len(tlog[u]) + 1
    \/ Len(plog'[op[t].dev]) = Len(plog[op[t].dev]) + 1

(* C1: the read, the bit injection and the write of one set happen under   *)
(* one continuous hold of the guard: no other bus transaction on the same   *)
(* device occurs between the read and the write of a set (stated here for   *)
(* the runs in which no transfer fails).                                    *)
C1_RmwAtomic ==
    [][\A t \in Threads :
          (MidRmw(t) /\ faults' = 0) => ~OtherTransaction(t)]_vars

(* both threads have returned from a successful bit store, to different    *)
(* attributes of one register of one device, and nothing else was called    *)
(* and no transfer failed                                                   *)
TwoStoresDone ==
    /\ \A t \in Threads : pc[t] = "idle" /\ op[t].kind = "store" /\ ret[t].n > 0
    /\ ncalls = 2
    /\ faults = 0
    /\ op["t1"].dev = op["t2"].dev
    /\ op["t1"].reg = op["t2"].reg
    /\ op["t1"].attr # op["t2"].attr

(* C2: two concurrent sets on different single-bit attributes sharing one  *)
(* register, with no transport failure: the final register value has both   *)
(* requested bits and equals the two sets applied one after the other in    *)
(* some order.                                                              *)
C2_NoLostUpdate ==
    TwoStoresDone =>
      LET c  == op["t1"].dev
          r  == op["t1"].reg
          v0 == regs0[c][r]
          v  == regs[c][r]
          i1 == op["t1"].index
          i2 == op["t2"].index
          b1 == op["t1"].usr_val
          b2 == op["t2"].usr_val
      IN  /\ BitOf(v, i1) = b1
          /\ BitOf(v, i2) = b2
          /\ v \in { StoreByte(StoreByte(v0, i1, b1), i2, b2),
                     StoreByte(StoreByte(v0, i2, b2), i1, b1) }

(* who has an SMBus transfer running on device c *)
InFlight(c) ==
    { t \in Threads : pc[t] = "xfer" /\ op[t].dev = c }
      \cup (IF ppc[c] = "io" /\ pphase[c] = "xfer" THEN {"probe"} ELSE {})

(* C3: at most one bus transaction is in flight per device instance at any *)
(* time, whatever mix of get, set and attach steps runs.                    *)
C3_OneInFlight == \A c \in Clients : Cardinality(InFlight(c)) <= 1

(* a thread's transfer is running while the other thread and probe wait    *)
(* for the lock                                                             *)
C3_Witness ==
    /\ pc["t1"] = "xfer"
    /\ pc["t2"] = "lock"
    /\ ppc["c0"] = "io" /\ pphase["c0"] = "lock"
    /\ op["t1"].dev = "c0" /\ op["t2"].dev = "c0"

(* thread t has returned from a bit store that went through, and no        *)
(* transfer failed                                                          *)
BitStoreDone(t) ==
    /\ pc[t] = "idle"
    /\ op[t].kind = "store"
    /\ op[t].attr # "scratch"
    /\ ret[t].n > 0
    /\ faults = 0

(* C4: a set on a single-bit attribute at bit index i, run alone and       *)
(* without transport failure, changes nothing but bit i of its register:    *)
(* every other bit of that register and every other register keep their    *)
(* prior value.                                                             *)
C4_OnlyTargetBit ==
    BitStoreDone("t1") =>
      LET c == op["t1"].dev
          r == op["t1"].reg
      IN  /\ \A j \in 0 .. 7 :
                j # op["t1"].index => BitOf(regs[c][r], j) = BitOf(regs0[c][r], j)
          /\ \A q \in RegAddrs \ {r} : regs[c][q] = regs0[c][q]
          /\ \A d \in Clients \ {c} : regs[d] = regs0[d]

(* a store of 0 to bit 3 of a register that held 0xFF went through *)
C4_Witness ==
    /\ BitStoreDone("t1")
    /\ op["t1"].index = 3
    /\ regs0["c0"][op["t1"].reg] = 255
    /\ regs["c0"][op["t1"].reg] = 247

(* texts whose value is outside {0,1} or that are no unsigned 8-bit number *)
BadBitText == { <<"2">>, <<"2", "5", "6">>, <<"x">>, <<>>, <<"-", "1">> }

(* C5: a set on a single-bit attribute with a value outside {0,1}, or with *)
(* text that is no unsigned 8-bit number, returns an invalid-value error,   *)
(* issues no transport read or write, leaves every register unchanged and   *)
(* never takes the guard.                                                   *)
C5_InvalidValueNoAccess ==
    \A t \in Threads :
      (op[t].kind = "store" /\ op[t].attr # "scratch" /\ op[t].buf \in BadBitText)
        => /\ pc[t] = "idle"
           /\ ret[t].n \in {-EINVAL, -ERANGE}
           /\ tlog[t] = <<>>
           /\ regs = regs0
           /\ mutex[op[t].dev] = "free"

(* the text "2" was written to a bit attribute and -EINVAL came back *)
C5_Witness ==
    /\ op["t1"].kind = "store"
    /\ op["t1"].attr = "qsfp17_rst"
    /\ op["t1"].buf = <<"2">>
    /\ ret["t1"].n = -EINVAL

(* what a get of attribute a returns when its transfer succeeds *)
ShowText(c, a) == sprintf_bit(regs[c][HandlerReg(a.show)], a.index)

(* C6: after attach has returned successfully and before any set, get of   *)
(* every port-reset attribute returns 1 and get of every low-power-mode     *)
(* and module-select attribute returns 0, whatever the registers held.      *)
C6_BringUpValues ==
    \A c \in Clients :
      (ppc[c] = "done" /\ status[c] = 0 /\ ncalls = 0) =>
        \A a \in Attrs :
          /\ a.show \in {"show_qsfp_rst0", "show_qsfp_rst1"}
                => ShowText(c, a) = <<"1", "\n">>
          /\ a.show \in {"show_qsfp_initmod0", "show_qsfp_initmod1",
                         "show_qsfp_modsel0", "show_qsfp_modsel1"}
                => ShowText(c, a) = <<"0", "\n">>

IdRegs == {CODE_REV_REG, CODE_DAY_REG, CODE_MONTH_REG, CODE_YEAR_REG}
RstRegs == {QSFP_RST_REG0, QSFP_RST_REG1}
LpmodRegs == {QSFP_INITMOD_REG0, QSFP_INITMOD_REG1}
ModselRegs == {QSFP_MODSEL_REG0, QSFP_MODSEL_REG1}

(* the phase of attach a logged transaction belongs to: 0 identification   *)
(* read, 1 port-reset write of 0xFF, 2 low-power-mode write of 0x00,        *)
(* 3 module-select write of 0x00, 9 anything else                           *)
Phase(e) ==
    IF e.k = "rd" /\ e.reg \in IdRegs THEN 0
    ELSE IF e.k = "wr" /\ e.reg \in RstRegs /\ e.val = 255 THEN 1
    ELSE IF e.k = "wr" /\ e.reg \in LpmodRegs /\ e.val = 0 THEN 2
    ELSE IF e.k = "wr" /\ e.reg \in ModselRegs /\ e.val = 0 THEN 3
    ELSE 9

(* the registers of R all occur in the first n entries of log l *)
SeenBefore(l, n, R) == \A r \in R : \E j \in 1 .. n : l[j].reg = r

(* C7: the bus transactions of attach come in a fixed order: the           *)
(* identification reads, then the writes of 0xFF to both port-reset         *)
(* registers, then the writes of 0x00 to both low-power-mode registers,     *)
(* then the writes of 0x00 to both module-select registers; a phase starts  *)
(* only when the one before it is complete.                                 *)
C7_ProbeOrder ==
    \A c \in Clients :
      LET l == plog[c]
      IN  /\ \A i \in 1 .. Len(l) : Phase(l[i]) # 9
          /\ \A i \in 1 .. Len(l) - 1 : Phase(l[i]) <= Phase(l[i + 1])
          /\ \A i \in 1 .. Len(l) - 1 :
                Phase(l[i]) < Phase(l[i + 1]) =>
                  /\ Phase(l[i + 1]) = Phase(l[i]) + 1
                  /\ Phase(l[i]) = 0 => SeenBefore(l, i, IdRegs)
                  /\ Phase(l[i]) = 1 => SeenBefore(l, i, RstRegs)
                  /\ Phase(l[i]) = 2 => SeenBefore(l, i, LpmodRegs)
          /\ Len(l) > 0 => Phase(l[1]) = 0
          /\ ppc[c] = "done" =>
                /\ Len(l) > 0
                /\ Phase(l[Len(l)]) = 3
                /\ SeenBefore(l, Len(l), ModselRegs)

(* attach has returned after all its reads and all six writes *)
C7_Witness ==
    /\ ppc["c0"] = "done"
    /\ Len(plog["c0"]) = 11
    /\ plog["c0"][6].reg = QSFP_RST_REG0
    /\ plog["c0"][11].reg = QSFP_MODSEL_REG1

(* attach of c has returned *)
Returned(c) == ppc[c] \in {"done", "failed"}

(* C8: if a transport read or write fails during attach, attach returns    *)
(* the bus error of the first failure, and afterwards no device instance    *)
(* is allocated and no attribute is registered.                             *)
C8_AttachFailsOnBusError ==
    \A c \in Clients :
      (Returned(c) /\ \E i \in 1 .. Len(plog[c]) : plog[c][i].res < 0) =>
        LET first == CHOOSE i \in 1 .. Len(plog[c]) :
                       /\ plog[c][i].res < 0
                       /\ \A j \in 1 .. i - 1 : plog[c][j].res = 0
        IN  /\ status[c] = plog[c][first].res
            /\ heap[c] # "allocated"
            /\ ~sysfs[c]

(* C9: whenever attach returns an error after the device instance was      *)
(* allocated, the instance is released: no instance memory stays allocated  *)
(* and the client has no instance bound to it.                              *)
C9_FailedAttachReleases ==
    \A c \in Clients :
      (ppc[c] = "failed" /\ status[c] # 0) =>
        /\ heap[c] # "allocated"
        /\ clientdata[c] = "NULL"

(* C10: if the transport cannot do byte-level register transactions,       *)
(* attach fails with an error before anything else happens: no instance is  *)
(* allocated, no attribute registered and no bus transaction issued.        *)
C10_CapabilityError ==
    \A c \in Clients :
      (~adapter[c] /\ ppc[c] # "unbound") =>
        /\ ppc[c] = "failed"
        /\ status[c] = -EIO
        /\ heap[c] = "none"
        /\ clientdata[c] = "NULL"
        /\ mutex[c] = "uninit"
        /\ ~sysfs[c]
        /\ plog[c] = <<>>
        /\ regs[c] = regs0[c]

(* probe of an adapter without SMBus byte-data support has returned -EIO *)
C10_Witness ==
    /\ ~adapter["c0"]
    /\ ppc["c0"] = "failed"
    /\ status["c0"] = -EIO

(* the one-character text sprintf("%d\n") gives for the bit value b *)
BitText(b) == IF b = 1 THEN <<"1", "\n">> ELSE <<"0", "\n">>

(* thread t has returned from a show handler whose register read failed *)
ShowReadFailed(t) ==
    /\ pc[t] = "idle"
    /\ op[t].kind = "show"
    /\ Len(tlog[t]) = 1
    /\ tlog[t][1].k = "rd"
    /\ tlog[t][1].res < 0

(* C11: if the transport read fails during get of a register-backed        *)
(* attribute, get returns the bus error to its caller, not a formatted      *)
(* value.                                                                   *)
C11_GetReturnsBusError ==
    \A t \in Threads :
      ShowReadFailed(t) => /\ ret[t].n = tlog[t][1].res
                           /\ ret[t].buf = <<>>

(* thread t has returned from a store handler whose register write failed *)
StoreWriteFailed(t) ==
    /\ pc[t] = "idle"
    /\ op[t].kind = "store"
    /\ Len(tlog[t]) > 0
    /\ tlog[t][Len(tlog[t])].k = "wr"
    /\ tlog[t][Len(tlog[t])].res < 0

(* C12: if the transport write fails during set of a writable attribute    *)
(* (single-bit or scratch), set returns the bus error to its caller and     *)
(* does not report success.                                                 *)
C12_SetReturnsBusError ==
    \A t \in Threads :
      StoreWriteFailed(t) => ret[t].n = tlog[t][Len(tlog[t])].res

(* how many read transactions on register r the log l holds *)
ReadsOf(l, r) ==
    Cardinality({ i \in 1 .. Len(l) : l[i].k = "rd" /\ l[i].reg = r })

(* C13: each identification register (code revision, build day, month,     *)
(* year) is read over the bus exactly once per device instance, during      *)
(* attach, and never by a later operation.                                  *)
C13_IdRegsReadOnce ==
    /\ \A c \in Clients, r \in IdRegs :
          /\ ReadsOf(plog[c], r) <= 1
          /\ ppc[c] = "done" => ReadsOf(plog[c], r) = 1
    /\ \A t \in Threads, r \in IdRegs : ReadsOf(tlog[t], r) = 0

(* ---- a bound device: one call on any attribute, then one more show ---- *)
IdAttrs == { a \in Attrs : a.show \in CachedShow }

(* the attributes the second caller reads *)
SecondShow ==
    IdAttrs \cup { AttrByName(n) : n \in {"qsfp18_rst", "qsfp17_prs", "scratch"} }

AttrBufs == { <<"0">>, <<"1">> }

NextAttrs ==
    \/ \E a \in Attrs :
          op["t1"].kind = "none" /\ ShowBegin("t1", "c0", a)
    \/ \E a \in Attrs, buf \in AttrBufs :
          op["t1"].kind = "none" /\ StoreBegin("t1", "c0", a, buf)
    \/ \E a \in SecondShow :
          /\ op["t1"].kind # "none"
          /\ pc["t1"] = "idle"
          /\ op["t2"].kind = "none"
          /\ ShowBegin("t2", "c0", a)
    \/ \E t \in Threads : ThreadLock(t)
    \/ \E t \in Threads : ThreadXfer(t)

SpecAttrs == InitConc /\ [][NextAttrs]_vars

(* the text a get of the identification attribute named n must give for    *)
(* the cached fields cd                                                     *)
IdText(n, cd) ==
    CASE n = "code_ver"   -> <<"0", "x">> \o FormatHex02(cd.code_ver) \o <<"\n">>
      [] n = "code_type"  -> FormatHex(cd.code_type) \o <<"\n">>
      [] n = "code_day"   -> FormatDec(cd.code_day) \o <<"\n">>
      [] n = "code_month" -> FormatDec(cd.code_month) \o <<"\n">>
      [] n = "code_year"  -> FormatDec(cd.code_year) \o <<"\n">>

(* C14: after attach has returned, the cached identification fields never  *)
(* change under any get or set, failed ones included, and a get of an       *)
(* identification field is served from the cache without a bus             *)
(* transaction.                                                             *)
C14_CacheImmutable ==
    /\ cache["c0"] = ReadyCache(regs0["c0"])
    /\ \A t \in Threads :
          (op[t].kind = "show" /\ op[t].attr \in { a.name : a \in IdAttrs }) =>
             /\ pc[t] = "idle"
             /\ tlog[t] = <<>>
             /\ ret[t].buf = IdText(op[t].attr, ReadyCache(regs0["c0"]))
             /\ ret[t].n = Len(ret[t].buf)

(* a store whose write failed was followed by a get of code_month *)
C14_Witness ==
    /\ StoreWriteFailed("t1")
    /\ op["t2"].kind = "show"
    /\ op["t2"].attr = "code_month"
    /\ ret["t2"].n > 0

(* ---- probe alone, on a device whose registers hold any pattern ---- *)
InitProbe ==
    /\ \E v0 \in Byte : regs = InitRegs(v0)
    /\ adapter = [c \in Clients |-> TRUE]
    /\ ppc = [c \in Clients |-> IF c = "c0" THEN "unbound" ELSE "absent"]
    /\ pidx = [c \in Clients |-> 1]
    /\ pphase = [c \in Clients |-> "none"]
    /\ status = [c \in Clients |-> 0]
    /\ heap = [c \in Clients |-> "none"]
    /\ clientdata = [c \in Clients |-> "NULL"]
    /\ mutex = [c \in Clients |-> "uninit"]
    /\ cache = [c \in Clients |-> ZeroData]
    /\ sysfs = [c \in Clients |-> FALSE]
    /\ plog = [c \in Clients |-> <<>>]
    /\ InitIdle

NextProbe ==
    \/ ProbeCheck("c0")
    \/ ProbeAlloc("c0")
    \/ ProbeSysfs("c0")
    \/ ProbeLock("c0")
    \/ ProbeXfer("c0")

SpecProbe == InitProbe /\ [][NextProbe]_vars

(* x is the number formed by some three different bits of the byte r, in   *)
(* some order                                                               *)
IsThreeBitField(x, r) ==
    \E i, j, k \in 0 .. 7 :
       /\ i # j /\ i # k /\ j # k
       /\ x = 4 * BitOf(r, i) + 2 * BitOf(r, j) + BitOf(r, k)

(* probe of c has returned, no transfer failed, and its first two reads    *)
(* were of the code-revision register                                       *)
RevisionRead(c) ==
    /\ ppc[c] = "done"
    /\ faults = 0
    /\ plog[c][1].reg = CODE_REV_REG /\ plog[c][1].res = 0
    /\ plog[c][2].reg = CODE_REV_REG /\ plog[c][2].res = 0

(* C15: for every byte r of the code-revision register read successfully   *)
(* at attach, the cached version is the 6-bit field of r at bits 0..5       *)
(* (r mod 64) and the cached type is a 3-bit field of r, a value in 0..7    *)
(* made of three bits of r.                                                 *)
C15_RevisionFields ==
    \A c \in Clients :
      RevisionRead(c) =>
        LET r == regs0[c][CODE_REV_REG]
        IN  /\ cache[c].code_ver = r % 64
            /\ cache[c].code_type \in 0 .. 7
            /\ IsThreeBitField(cache[c].code_type, r)

(* this step is a step of remove on client c *)
RemoveStep(c) == ppc[c] \in {"done", "removing"} /\ ppc'[c] # ppc[c]

(* C16: detach issues no bus transaction: the device registers after it    *)
(* equal the registers before it; detach only unregisters the attributes    *)
(* and releases the device instance.                                        *)
C16_DetachNoBus ==
    [][\A c \in Clients :
          RemoveStep(c) =>
            /\ regs' = regs
            /\ plog' = plog
            /\ tlog' = tlog
            /\ mutex' = mutex
            /\ ppc'[c] = "removing" => ~sysfs'[c]
            /\ ppc'[c] = "removed" => (heap'[c] = "freed" /\ ~sysfs'[c])]_vars

(* the device was removed after a store had changed a register *)
C16_Witness ==
    /\ ppc["c0"] = "removed"
    /\ heap["c0"] = "freed"
    /\ ncalls > 0
    /\ regs["c0"][QSFP_RST_REG0] = 127

(* thread t is in a bit store whose read succeeded: op[t].val is the byte   *)
(* read and op[t].wval the byte the handler hands to cpld_i2c_write         *)
BitStoreComputed(t) ==
    /\ op[t].kind = "store"
    /\ op[t].attr # "scratch"
    /\ op[t].stage = "write"
    /\ Len(tlog[t]) >= 1
    /\ tlog[t][1].k = "rd"
    /\ tlog[t][1].res = 0

(* C17: the bit arithmetic of get and set is a round trip: for every byte  *)
(* v, index i and b in {0,1}, the bit get extracts at i from (v with bit i  *)
(* set to b) is b, and setting bit i of v to its own value gives v.         *)
C17_BitRoundTrip ==
    \A t \in Threads :
      BitStoreComputed(t) =>
        LET v == tlog[t][1].val
            i == op[t].index
            b == op[t].usr_val
        IN  /\ sprintf_bit(op[t].wval, i) = BitText(b)
            /\ sprintf_bit(v, i) = BitText(b) => op[t].wval = v

(* bit 7 of 0xFF was cleared: 0x7F is handed to the write *)
C17_Witness ==
    /\ BitStoreComputed("t1")
    /\ op["t1"].index = 7
    /\ op["t1"].usr_val = 0
    /\ tlog["t1"][1].val = 255
    /\ op["t1"].wval = 127

(* ---- a store by one caller, then a show of the same attribute ---- *)
(* every attribute with a store handler for one bit *)
BitAttrs == { a \in Attrs : a.store \in BitStore }

NextSetGet ==
    \/ \E a \in BitAttrs, buf \in AttrBufs :
          op["t1"].kind = "none" /\ StoreBegin("t1", "c0", a, buf)
    \/ \E a \in BitAttrs :
          /\ op["t1"].kind = "store"
          /\ op["t1"].attr = a.name
          /\ pc["t1"] = "idle"
          /\ ret["t1"].n > 0
          /\ op["t2"].kind = "none"
          /\ ShowBegin("t2", "c0", a)
    \/ \E t \in Threads : ThreadLock(t)
    \/ \E t \in Threads : ThreadXfer(t)

SpecSetGet == InitRmw /\ [][NextSetGet]_vars

(* t1's store returned count, then t2's show of the same attribute         *)
(* returned, and no transfer failed                                         *)
SetThenGet ==
    /\ BitStoreDone("t1")
    /\ op["t2"].kind = "show"
    /\ op["t2"].attr = op["t1"].attr
    /\ pc["t2"] = "idle"

(* C18: for every writable single-bit attribute, prior register value and  *)
(* b in {0,1}: after set(name, b) has succeeded with no transport failure   *)
(* and nothing else touched the register, get(name) returns b as "0" or     *)
(* "1"; when the bit already was b, the byte written equals the byte read.  *)
C18_SetThenGet ==
    /\ SetThenGet =>
          /\ ret["t2"].buf = BitText(op["t1"].usr_val)
          /\ ret["t2"].n = 2
    /\ BitStoreDone("t1") =>
          LET v == tlog["t1"][1].val
              w == tlog["t1"][2].val
          IN  BitOf(v, op["t1"].index) = op["t1"].usr_val => w = v

(* lpmod of port 19 (bit 5) was set to 1 on a register holding 0xFF, 0xFF  *)
(* was written and the get returned "1"                                     *)
C18_Witness ==
    /\ SetThenGet
    /\ op["t1"].attr = "qsfp19_lpmod"
    /\ op["t1"].usr_val = 1
    /\ tlog["t1"][1].val = 255
    /\ tlog["t1"][2].val = 255
    /\ ret["t2"].buf = <<"1", "\n">>

(* the registers behind the read-only attributes: hitless enable, module  *)
(* presence, module interrupt, SFP status, and the identification registers *)
ReadOnlyRegs ==
    { HITLESS_REG, QSFP_MODPRS_REG0, QSFP_MODPRS_REG1, QSFP_INT_REG0,
      QSFP_INT_REG1, SFP_REG0 } \cup IdRegs

(* C19: read-only attributes have no set and no get ever writes: under any *)
(* get and set after attach, no transport write goes to the presence,       *)
(* interrupt, hitless-enable, SFP status or identification registers, and   *)
(* a get issues no transport write at all.                                  *)
C19_ReadOnlyNeverWritten ==
    /\ \A a \in Attrs :
          (a.show \in CachedShow \/ HandlerReg(a.show) \in ReadOnlyRegs)
             => a.store = "NULL"
    /\ \A t \in Threads : \A i \in 1 .. Len(tlog[t]) :
          tlog[t][i].k = "wr" =>
             /\ tlog[t][i].reg \notin ReadOnlyRegs
             /\ op[t].kind = "store"
    /\ \A r \in ReadOnlyRegs : regs["c0"][r] = regs0["c0"][r]

(* a store to sfp_tx_en wrote SFP_REG1, then a presence bit was read *)
C19_Witness ==
    /\ op["t1"].kind = "store"
    /\ op["t1"].attr = "sfp_tx_en"
    /\ Len(tlog["t1"]) = 2
    /\ tlog["t1"][2].k = "wr"
    /\ tlog["t1"][2].res = 0
    /\ op["t2"].attr = "qsfp17_prs"
    /\ ret["t2"].n = 2

(* the register an attribute's handlers work on; the identification        *)
(* attributes work on no register                                           *)
OnRegister(a) == a.show \notin CachedShow

(* the attribute table names every attribute once, reads and writes an     *)
(* attribute on one register, and gives two attributes of one register      *)
(* different bit indices                                                    *)
TableDistinct ==
    /\ \A a, b \in Attrs : a # b => a.name # b.name
    /\ \A a \in Attrs :
          (OnRegister(a) /\ a.store # "NULL")
             => HandlerReg(a.store) = HandlerReg(a.show)
    /\ \A a, b \in Attrs :
          (a # b /\ OnRegister(a) /\ OnRegister(b)
             /\ HandlerReg(a.show) = HandlerReg(b.show))
             => a.index # b.index

(* C20: within each register the bit indices of the attributes mapped to   *)
(* it are pairwise distinct: no two named attributes read or write the      *)
(* same (register address, bit index) pair.                                 *)
C20_BitIndicesDistinct ==
    /\ TableDistinct
    /\ \A t, u \in Threads :
          (op[t].kind # "none" /\ op[u].kind # "none"
             /\ op[t].attr # op[u].attr
             /\ OnRegister(AttrByName(op[t].attr))
             /\ OnRegister(AttrByName(op[u].attr))
             /\ op[t].reg = op[u].reg)
             => op[t].index # op[u].index

(* two attributes of one register were used, at bits 7 and 6 *)
C20_Witness ==
    /\ op["t1"].attr = "qsfp17_rst"
    /\ op["t2"].attr = "qsfp18_rst"
    /\ op["t1"].reg = op["t2"].reg
    /\ op["t1"].index = 7
    /\ op["t2"].index = 6

(* ---- two bound devices, each with its own struct cpld_data ---- *)
InitTwo ==
    /\ \E v0 \in InitBytes :
          LET r0 == InitRegs(v0)["c0"]
          IN  /\ regs = [c \in Clients |-> ReadyRegs(r0)]
              /\ cache = [c \in Clients |-> ReadyCache(r0)]
              /\ plog = [c \in Clients |-> ReadyLog(r0)]
    /\ adapter = [c \in Clients |-> TRUE]
    /\ ppc = [c \in Clients |-> "done"]
    /\ pidx = [c \in Clients |-> Len(ProbeIO)]
    /\ pphase = [c \in Clients |-> "none"]
    /\ status = [c \in Clients |-> 0]
    /\ heap = [c \in Clients |-> "allocated"]
    /\ clientdata = [c \in Clients |-> "data"]
    /\ mutex = [c \in Clients |-> "free"]
    /\ sysfs = [c \in Clients |-> TRUE]
    /\ InitIdle

NextTwo ==
    \/ \E t \in Threads, c \in Clients, a \in LifeShow :
          ncalls < MaxCalls /\ ShowBegin(t, c, a)
    \/ \E t \in Threads, c \in Clients, a \in LifeStore, buf \in LifeBufs :
          ncalls < MaxCalls /\ StoreBegin(t, c, a, buf)
    \/ \E t \in Threads : ThreadLock(t)
    \/ \E t \in Threads : ThreadXfer(t)

SpecTwo == InitTwo /\ [][NextTwo]_vars

(* C21: the guard is per device instance: a transaction in progress on one *)
(* instance never blocks a transaction on another instance (a caller whose  *)
(* own instance's guard is free can always take it), and no state has two   *)
(* transactions in flight on the same instance.                             *)
C21_PerInstanceGuard ==
    /\ \A c \in Clients : Cardinality(InFlight(c)) <= 1
    /\ \A t \in Threads :
          (pc[t] = "lock" /\ InFlight(op[t].dev) = {}) => ENABLED ThreadLock(t)

(* both instances have a transaction in flight at once *)
C21_Witness ==
    /\ pc["t1"] = "xfer" /\ op["t1"].dev = "c0"
    /\ pc["t2"] = "xfer" /\ op["t2"].dev = "c1"
    /\ mutex = [c \in Clients |-> IF c = "c0" THEN "t1" ELSE "t2"]

(* thread t has returned from a bit store whose read of the register failed *)
StoreReadFailed(t) ==
    /\ pc[t] = "idle"
    /\ op[t].kind = "store"
    /\ op[t].attr # "scratch"
    /\ Len(tlog[t]) >= 1
    /\ tlog[t][1].k = "rd"
    /\ tlog[t][1].res < 0

(* C22: in a set on a single-bit attribute, if the transport read of the   *)
(* current register value fails, no transport write is issued for that      *)
(* set, the register keeps its prior value and set reports the bus error.   *)
C22_ReadFailureNoWrite ==
    \A t \in Threads :
      StoreReadFailed(t) =>
        /\ Len(tlog[t]) = 1
        /\ regs[op[t].dev][op[t].reg] = regs0[op[t].dev][op[t].reg]
        /\ ret[t].n = tlog[t][1].res

(* attach of c has returned 0 and detach has not freed the instance *)
Ready(c) == ppc[c] \in {"done", "removing"} /\ status[c] = 0

(* C23: no get or set on an attribute of a device instance executes        *)
(* before attach's bring-up writes have completed: attributes are served    *)
(* only in the Ready state, so a set is never overwritten by a later        *)
(* bring-up write and a get never sees a pre-bring-up register value.       *)
C23_ServedOnlyWhenReady ==
    \A t \in Threads :
      op[t].kind # "none" =>
        /\ pc[t] # "idle" => Ready(op[t].dev)
        /\ \A i \in 1 .. Len(tlog[t]) :
              Len(plog[op[t].dev]) = Len(ProbeIO)

(* the six registers probe writes during bring-up *)
BringUpRegs == RstRegs \cup LpmodRegs \cup ModselRegs

(* C24: on every attach that passes the capability check, the allocation   *)
(* and the attribute registration, all six bring-up writes are issued,      *)
(* unconditionally: a failed identification read or a failed earlier        *)
(* bring-up write does not stop the later writes.                           *)
C24_BringUpUnconditional ==
    \A c \in Clients :
      /\ ppc[c] = "failed" => plog[c] = <<>>
      /\ ppc[c] \in {"done", "removing", "removed"} =>
            /\ Len(plog[c]) = Len(ProbeIO)
            /\ \A r \in BringUpRegs :
                  Cardinality({ i \in 1 .. Len(plog[c]) :
                                  plog[c][i].k = "wr" /\ plog[c][i].reg = r }) = 1

(* attach completed all its writes although the first bring-up write failed *)
C24_Witness ==
    /\ ppc["c0"] = "done"
    /\ plog["c0"][6].k = "wr"
    /\ plog["c0"][6].res < 0
    /\ plog["c0"][11].k = "wr"
    /\ plog["c0"][11].reg = QSFP_MODSEL_REG1

(* the register the handlers of the attribute named n work on *)
OwnReg(n) == HandlerReg(AttrByName(n).show)

(* C25: a set with a valid value on a single-bit attribute issues exactly  *)
(* one transport read followed by at most one transport write, both to the  *)
(* attribute's own register; a get of a register-backed attribute issues    *)
(* exactly one transport read; a failed transport call is never repeated.   *)
C25_OneReadOneWrite ==
    \A t \in Threads :
      LET l == tlog[t]
      IN  /\ (op[t].kind = "store" /\ op[t].attr # "scratch") =>
                /\ Len(l) <= 2
                /\ Len(l) >= 1 => (l[1].k = "rd" /\ l[1].reg = OwnReg(op[t].attr))
                /\ Len(l) = 2 => (l[2].k = "wr" /\ l[2].reg = OwnReg(op[t].attr))
                /\ (pc[t] = "idle" /\ ret[t].n > 0) => Len(l) >= 1
          /\ (op[t].kind = "show" /\ op[t].attr \notin { a.name : a \in IdAttrs }) =>
                /\ Len(l) <= 1
                /\ Len(l) = 1 => (l[1].k = "rd" /\ l[1].reg = OwnReg(op[t].attr))
                /\ pc[t] = "idle" => Len(l) = 1

(* a get returned after its single read had failed *)
C25_Witness ==
    /\ ShowReadFailed("t1")
    /\ op["t1"].attr = "qsfp26_modsel"
    /\ tlog["t1"][1].reg = QSFP_MODSEL_REG1

(* ---- a store to scratch, then a show of scratch by a second caller ---- *)
ScratchBufs ==
    { <<"0">>, <<"f", "f">>, <<"a", "5">>, <<"0", "x", "1", "f">>,
      <<"7", "F", "\n">>, <<"1", "0", "0">>, <<"g">>, <<>> }

NextScratch ==
    \/ \E buf \in ScratchBufs :
          op["t1"].kind = "none" /\ StoreBegin("t1", "c0", AttrByName("scratch"), buf)
    \/ /\ op["t1"].kind = "store"
       /\ pc["t1"] = "idle"
       /\ ret["t1"].n > 0
       /\ op["t2"].kind = "none"
       /\ ShowBegin("t2", "c0", AttrByName("scratch"))
    \/ \E t \in Threads : ThreadLock(t)
    \/ \E t \in Threads : ThreadXfer(t)

SpecScratch == InitRmw /\ [][NextScratch]_vars

(* the byte a hexadecimal text stands for *)
ScratchValue(buf) ==
    CASE buf = <<"0">>                -> 0
      [] buf = <<"f", "f">>           -> 255
      [] buf = <<"a", "5">>           -> 165
      [] buf = <<"0", "x", "1", "f">> -> 31
      [] buf = <<"7", "F", "\n">>     -> 127

ValidScratchBufs ==
    { <<"0">>, <<"f", "f">>, <<"a", "5">>, <<"0", "x", "1", "f">>,
      <<"7", "F", "\n">> }

(* C26: set on scratch with a value v in 0..255 given as hexadecimal text  *)
(* issues exactly one transport write of the whole byte v to the scratch    *)
(* register and no read; with no transport failure and no intervening       *)
(* write a following get of scratch returns v; no other register changes.   *)
C26_ScratchWholeByte ==
    (op["t1"].kind = "store" /\ op["t1"].attr = "scratch"
       /\ op["t1"].buf \in ValidScratchBufs) =>
      LET v == ScratchValue(op["t1"].buf)
          l == tlog["t1"]
      IN  /\ op["t1"].usr_val = v
          /\ Len(l) <= 1
          /\ Len(l) = 1 => (l[1].k = "wr" /\ l[1].reg = SCRATCH_REG /\ l[1].val = v)
          /\ pc["t1"] = "idle" => (Len(l) = 1 /\ ret["t1"].n = Len(op["t1"].buf))
          /\ \A r \in RegAddrs \ {SCRATCH_REG} : regs["c0"][r] = regs0["c0"][r]
          /\ (pc["t1"] = "idle" /\ faults = 0) => regs["c0"][SCRATCH_REG] = v
          /\ (op["t2"].kind = "show" /\ pc["t2"] = "idle" /\ faults = 0) =>
                /\ ret["t2"].buf = FormatHex02(v) \o <<"\n">>
                /\ kstrtou8(ret["t2"].buf, 16) = [ret |-> 0, val |-> v]

(* "a5" was stored to scratch and the get returned "a5" *)
C26_Witness ==
    /\ op["t1"].buf = <<"a", "5">>
    /\ tlog["t1"] = << [k |-> "wr", reg |-> SCRATCH_REG, val |-> 165, res |-> 0] >>
    /\ op["t2"].kind = "show"
    /\ ret["t2"].buf = <<"a", "5", "\n">>

(* ---- two bound devices, with every started lock and transfer finishing ---- *)
(* each SMBus call returns, and a waiter for the mutex gets it in the end   *)
Fairness ==
    \A t \in Threads : SF_vars(ThreadLock(t)) /\ WF_vars(ThreadXfer(t))

SpecLive == InitTwo /\ [][NextTwo]_vars /\ Fairness

(* the lock of every device is held only by who has a transfer in flight   *)
GuardFreeWhenIdle ==
    \A c \in Clients :
      mutex[c] \notin {"free", "uninit"} => InFlight(c) = {mutex[c]}

====
